---- MODULE Spec2Model ----
(***************************************************************************)
(* Verification model of the syntheca harvesting clients.                  *)
(*                                                                         *)
(*  - BaseClient.request (clients/base.py): the tenacity retry loop.       *)
(*  - PureOAIClient of clients/pure_oai_lxml.py: get_all_records, the      *)
(*    semaphore-limited date windows, and the producer/consumer pair of    *)
(*    _harvest_collection_concurrent over a bounded queue.                 *)
(*  - PureOAIClient of clients/pure_oai.py: get_all_records with its       *)
(*    cache lookup, the per-collection resumption loop and the persist     *)
(*    step.                                                                *)
(*                                                                         *)
(* The specifications share the variables; each moves the variables of one *)
(* part and leaves those of the other two untouched.                       *)
(***************************************************************************)
EXTENDS Integers, Sequences, FiniteSets, TLC

(***************************************************************************)
(* Bounds of the model.                                                    *)
(***************************************************************************)
\* resumption tokens the modelled server hands out during one run
MaxTokens == 1
\* answers of the modelled server during one run that are not an ordinary page
MaxIrregular == 1
\* number of date windows generate_date_chunks yields per collection
NChunks == 2
\* requests the modelled server answers during a run of many date windows
MaxAnswers == 1

(***************************************************************************)
(* Program constants.                                                      *)
(***************************************************************************)
\* stop_after_attempt(4)
StopAfterAttempt == 4
\* wait_exponential(min=1, max=20)
WaitMin == 1
WaitMax == 20
\* asyncio.Semaphore(10)
SemaphoreValue == 10
\* asyncio.Queue(maxsize=10)
QueueMaxsize == 10

VARIABLES
    \* ---- BaseClient.request ------------------------------------------------
    rstate,          \* "idle" | "calling" | "sleeping" | "returned" | "raised"
    attempt_number,  \* tenacity's retry_state.attempt_number
    rlog,            \* outcomes of the HTTP attempts made so far, in order
    rresult,         \* status of the response returned, 0 when none
    rerror,          \* "none" | "HTTPStatusError" | "RequestError" | "RetryError"
    rwait,           \* seconds of the backoff sleep in progress
    \* ---- pure_oai_lxml.PureOAIClient ---------------------------------------
    gstate,          \* get_all_records: "idle" | "running" | "returned" | "raised" | "cancelled"
    gcoll,           \* index of the collection the for loop is at
    results,         \* results[collection]
    sem,             \* free slots of the semaphore
    hstate,          \* per window: "idle" | "waiting" | "running" | "returned" | "raised"
    ppc,             \* producer: "none" | "fetch" | "put" | "sentinel" | "done"
    cpc,             \* consumer: "none" | "get" | "done" | "failed"
    url,             \* producer's url, NoUrl when None
    pending,         \* parsed root and token the producer is about to put
    queue,           \* the asyncio.Queue of the window
    final_records,   \* final_records of the window
    served,          \* pages the server answered for the window, in order
    reqlog,          \* requests the window sent, in order
    ncoll,           \* number of collections given to get_all_records
    nchunks,         \* number of chunks generate_date_chunks yields
    tokens_left,     \* resumption tokens the server may still hand out
    irregular_left,  \* answers other than an ordinary page it may still give
    answers_left,    \* requests it may still answer
    \* ---- pure_oai.PureOAIClient --------------------------------------------
    ostate,          \* "idle" | "request" | "returned" | "raised"
    ocoll,           \* index of the collection the for loop is at
    ourl,            \* url of get_collection_data
    ocol_records,    \* col_records of get_collection_data
    oresults,        \* results: the collections that have an entry so far
    oserved,         \* pages the server answered per collection
    oreqlog,         \* requests sent per collection
    use_cache_for_retrieval,
    persist_intermediate,
    cache,           \* per collection: the parquet cache entry
    \* ---- processing: matching and merging ---------------------------------
    pstate,          \* "idle" | "searching" | "returned"
    fn,              \* the function that was called, "none" before the call
    args,            \* its arguments
    ret,             \* the value it returned
    to_search,       \* resolve_missing_ids: the titles not looked up yet
    lookups,         \* resolve_missing_ids: the answer to the lookup of each title
    candidates       \* resolve_missing_ids: candidates

rvars == <<rstate, attempt_number, rlog, rresult, rerror, rwait>>
hvars == <<gstate, gcoll, results, sem, hstate, ppc, cpc, url, pending, queue,
           final_records, served, reqlog, ncoll, nchunks, tokens_left,
           irregular_left, answers_left>>
ovars == <<ostate, ocoll, ourl, ocol_records, oresults, oserved, oreqlog,
           use_cache_for_retrieval, persist_intermediate, cache>>
pvars == <<pstate, fn, args, ret, to_search, lookups, candidates>>
vars == <<rvars, hvars, ovars, pvars>>

(***************************************************************************)
(* BaseClient.request                                                      *)
(***************************************************************************)
\* Outcome of one HTTP attempt: 0 is a network-level httpx.RequestError,
\* anything else the status code of the response.
NetworkError == 0
StatusCodes == {200, 204, 301, 400, 404, 429, 500, 503}
Outcomes == {NetworkError} \cup StatusCodes

\* response.raise_for_status(): raises HTTPStatusError unless 2xx
RaisesForStatus(status) == ~(200 <= status /\ status < 300)

\* exception the body of request raises for an outcome, "none" for a 2xx
ExceptionOf(o) ==
    IF o = NetworkError THEN "RequestError"
    ELSE IF RaisesForStatus(o) THEN "HTTPStatusError"
    ELSE "none"

\* variant of _is_retriable_exception that retries every status error
RetriesEveryStatusError(o) == ExceptionOf(o) # "none"

\* _is_retriable_exception
_is_retriable_exception(o) ==
    IF ExceptionOf(o) = "RequestError" THEN TRUE
    ELSE IF ExceptionOf(o) = "HTTPStatusError"
         THEN o = 429 \/ (500 <= o /\ o < 600)
         ELSE FALSE

\* variants of the stop condition: one attempt more, one attempt fewer
StopsOneLater(n) == n >= StopAfterAttempt + 1
StopsOneEarlier(n) == n >= StopAfterAttempt - 1

\* stop=stop_after_attempt(4)
stop_after_attempt(n) == n >= StopAfterAttempt

RECURSIVE Pow2(_)
Pow2(n) == IF n <= 0 THEN 1 ELSE 2 * Pow2(n - 1)

Min2(a, b) == IF a < b THEN a ELSE b
Max2(a, b) == IF a > b THEN a ELSE b

\* wait=wait_exponential(min=1, max=20): multiplier 1, base 2
wait_exponential(n) == Max2(Max2(0, WaitMin), Min2(Pow2(n - 1), WaitMax))

InitRetry ==
    /\ rstate = "idle"
    /\ attempt_number = 0
    /\ rlog = <<>>
    /\ rresult = 0
    /\ rerror = "none"
    /\ rwait = 0

\* await client.request(...): tenacity starts the first attempt
RequestCall ==
    /\ rstate = "idle"
    /\ rstate' = "calling"
    /\ attempt_number' = 1
    /\ UNCHANGED <<rlog, rresult, rerror, rwait, hvars, ovars, pvars>>

\* one attempt: the body of request, then tenacity's decision
RequestAttempt(o) ==
    /\ rstate = "calling"
    /\ rlog' = Append(rlog, o)
    /\ IF ExceptionOf(o) = "none"
       THEN /\ rstate' = "returned"
            /\ rresult' = o
            /\ UNCHANGED <<rerror, rwait>>
       ELSE IF ~_is_retriable_exception(o)
       THEN /\ rstate' = "raised"
            /\ rerror' = ExceptionOf(o)
            /\ UNCHANGED <<rresult, rwait>>
       ELSE IF stop_after_attempt(attempt_number)
       THEN /\ rstate' = "raised"
            /\ rerror' = "RetryError"
            /\ UNCHANGED <<rresult, rwait>>
       ELSE /\ rstate' = "sleeping"
            /\ rwait' = wait_exponential(attempt_number)
            /\ UNCHANGED <<rresult, rerror>>
    /\ UNCHANGED <<attempt_number, hvars, ovars, pvars>>

\* the backoff sleep ends and tenacity starts the next attempt
RequestWake ==
    /\ rstate = "sleeping"
    /\ rstate' = "calling"
    /\ attempt_number' = attempt_number + 1
    /\ rwait' = 0
    /\ UNCHANGED <<rlog, rresult, rerror, hvars, ovars, pvars>>

NextRetry ==
    \/ RequestCall
    \/ \E o \in Outcomes : RequestAttempt(o)
    \/ RequestWake

(***************************************************************************)
(* pure_oai_lxml.PureOAIClient                                             *)
(*                                                                         *)
(* asyncio runs one task at a time and switches only at an await that      *)
(* suspends: a network request, a put on a full queue, a get on an empty   *)
(* queue, a gather.  Each action below is the code one task runs between   *)
(* two such points.  Which ready task runs next is left open.              *)
(***************************************************************************)
\* the collections get_all_records is called with (Pipeline.run)
collections_to_fetch == <<"publications", "persons">>

\* window ids: window k of collection c is (c - 1) * nchunks + k
Windows == 1..(ncoll * nchunks)
\* the collection a window (one harvest_worker task) belongs to
CollOf(w) == ((w - 1) \div nchunks) + 1
WindowsOf(c) == {w \in Windows : CollOf(w) = c /\ c <= ncoll}

\* A url is the sequence of its query parameter names and the value of its
\* resumptionToken parameter (0 when it has none).
NoUrl == [params |-> <<>>, token |-> 0]

\* base_params / initial_url of _harvest_collection_concurrent;
\* harvest_worker always passes date_from and date_until
initial_url == [params |-> <<"verb", "metadataPrefix", "set", "from", "until">>,
                token |-> 0]

\* resume_url_base
resume_url_base == <<"verb">>

\* variant of the resumed url that is built on the initial url
ResumesOnInitialUrl(token) ==
    [params |-> Append(initial_url.params, "resumptionToken"), token |-> token]

\* f"{resume_url_base}&resumptionToken={token}"
ResumeUrl(token) ==
    [params |-> Append(resume_url_base, "resumptionToken"), token |-> token]

\* The queue item None
Sentinel == 0

\* What the server can answer to one producer request:
\*   "ok"    a page whose records the consumer can flatten
\*   "bad"   a page that parses, but on which the consumer's flattening raises
\*   "norec" a body containing noRecordsMatch
\*   "err"   request() raised, or the payload could not be parsed
PageKinds == {"ok", "bad", "norec", "err"}

\* Index of the page a request asks for: 1 for the initial url, else the page
\* the resumption token names.
PageAsked(u) == IF u.token = 0 THEN 1 ELSE u.token

\* The runs explored: the collections given to get_all_records, the chunks
\* per collection, and what the server does during the run: how many
\* resumption tokens it hands out, how many of its answers are not "ok", and
\* how many requests it answers at all (a window sends one request and one
\* more for every token, so windows + tokens answers leave none unanswered).
ShortRun == [ncoll |-> Len(collections_to_fetch), nchunks |-> NChunks,
             tokens |-> MaxTokens,
             irregular |-> MaxIrregular,
             answers |-> Len(collections_to_fetch) * NChunks + MaxTokens]
\* one window whose chain is longer than the queue
LongRun == [ncoll |-> 1, nchunks |-> 1, tokens |-> QueueMaxsize + 1,
            irregular |-> 1, answers |-> QueueMaxsize + 2]
\* one collection with more date windows than the semaphore has slots; the
\* run is followed until the server has answered MaxAnswers requests
ManyRun == [ncoll |-> 1, nchunks |-> SemaphoreValue + 1, tokens |-> 0,
            irregular |-> 1, answers |-> MaxAnswers]

InitHarvest(run) ==
    /\ ncoll = run.ncoll
    /\ nchunks = run.nchunks
    /\ tokens_left = run.tokens
    /\ irregular_left = run.irregular
    /\ answers_left = run.answers
    /\ gstate = "idle"
    /\ gcoll = 0
    /\ results = <<>>
    /\ sem = SemaphoreValue
    /\ hstate = [w \in Windows |-> "idle"]
    /\ ppc = [w \in Windows |-> "none"]
    /\ cpc = [w \in Windows |-> "none"]
    /\ url = [w \in Windows |-> NoUrl]
    /\ pending = [w \in Windows |-> [idx |-> 0, token |-> 0]]
    /\ queue = [w \in Windows |-> <<>>]
    /\ final_records = [w \in Windows |-> <<>>]
    /\ served = [w \in Windows |-> <<>>]
    /\ reqlog = [w \in Windows |-> <<>>]

envvars == <<ncoll, nchunks>>

\* tasks.append(harvest_worker(...)) for every chunk of a collection, and
\* gather schedules them: each worker next waits for the semaphore
SpawnWindows(c) ==
    hstate' = [w \in Windows |-> IF w \in WindowsOf(c) THEN "waiting" ELSE hstate[w]]

\* get_all_records is called: the loop enters the first collection
GetAllRecords ==
    /\ gstate = "idle"
    /\ gstate' = "running"
    /\ gcoll' = 1
    /\ SpawnWindows(1)
    /\ UNCHANGED <<results, sem, ppc, cpc, url, pending, queue, final_records,
                   served, reqlog, tokens_left, irregular_left, answers_left, envvars, rvars, ovars, pvars>>

\* variant of harvest_worker that does not wait for a slot
StartsWithoutSlot(w) ==
    /\ hstate[w] = "waiting"
    /\ \A v \in WindowsOf(CollOf(w)) : v < w => hstate[v] # "waiting"
    /\ sem' = sem - 1
    /\ hstate' = [hstate EXCEPT ![w] = "running"]
    /\ ppc' = [ppc EXCEPT ![w] = "fetch"]
    /\ cpc' = [cpc EXCEPT ![w] = "get"]
    /\ url' = [url EXCEPT ![w] = initial_url]
    /\ UNCHANGED <<gstate, gcoll, results, pending, queue, final_records,
                   served, reqlog, tokens_left, irregular_left, answers_left,
                   envvars, rvars, ovars, pvars>>

\* harvest_worker: async with semaphore, then _harvest_collection_concurrent
\* up to its gather: the queue is created, producer and consumer are started.
\* gather starts the workers in the order of tasks and the semaphore wakes
\* its waiters first in, first out, so the workers of a collection enter in
\* order.
HarvestWorker(w) ==
    /\ hstate[w] = "waiting"
    /\ \A v \in WindowsOf(CollOf(w)) : v < w => hstate[v] # "waiting"
    /\ sem > 0
    /\ sem' = sem - 1
    /\ hstate' = [hstate EXCEPT ![w] = "running"]
    /\ ppc' = [ppc EXCEPT ![w] = "fetch"]
    /\ cpc' = [cpc EXCEPT ![w] = "get"]
    /\ url' = [url EXCEPT ![w] = initial_url]
    /\ UNCHANGED <<gstate, gcoll, results, pending, queue, final_records,
                   served, reqlog, tokens_left, irregular_left, answers_left, envvars, rvars, ovars, pvars>>

\* variant of the producer's exit that puts no sentinel
ExitsWithoutSentinel(q) == [queue |-> q, ppc |-> "done", url |-> NoUrl]

\* the producer after its while loop: await queue.put(None)
LoopExit(q) ==
    IF Len(q) < QueueMaxsize
    THEN [queue |-> Append(q, Sentinel), ppc |-> "done", url |-> NoUrl]
    ELSE [queue |-> q, ppc |-> "sentinel", url |-> NoUrl]

\* url = f"{resume_url_base}&resumptionToken={token}" if token else None
NextUrl(token) == IF token # 0 THEN ResumeUrl(token) ELSE NoUrl

\* the producer once queue.put(root) has put the page: the url of the next
\* round and the loop test
AfterPut(q, token) ==
    IF NextUrl(token) # NoUrl
    THEN [queue |-> q, ppc |-> "fetch", url |-> NextUrl(token)]
    ELSE LoopExit(q)

\* variant of the noRecordsMatch branch that keeps the url
KeepsUrl(u) == u

\* the noRecordsMatch branch: url = None, then continue
NoRecordsUrl(u) == NoUrl

\* producer, from the answer to self.request("GET", url) to its next
\* suspension: the noRecordsMatch test, the parse and the token extraction,
\* the put of the page (suspends on a full queue), the next url; for "err"
\* the except branch; after the loop the put of None
ProducerFetch(w, kind, token) ==
    /\ ppc[w] = "fetch"
    /\ answers_left > 0
    /\ answers_left' = answers_left - 1
    /\ kind # "ok" => irregular_left > 0
    /\ irregular_left' = IF kind # "ok" THEN irregular_left - 1 ELSE irregular_left
    /\ token \in {0, PageAsked(url[w]) + 1}
    /\ token # 0 => tokens_left > 0 /\ kind \in {"ok", "bad"}
    /\ tokens_left' = IF token # 0 THEN tokens_left - 1 ELSE tokens_left
    /\ reqlog' = [reqlog EXCEPT ![w] = Append(@, url[w])]
    /\ served' = [served EXCEPT ![w] =
                     Append(@, [idx |-> PageAsked(url[w]), kind |-> kind,
                                token |-> token])]
    /\ LET idx == Len(served[w]) + 1
           now == IF kind = "err" THEN LoopExit(queue[w])
                  ELSE IF kind = "norec"
                  THEN IF NoRecordsUrl(url[w]) = NoUrl THEN LoopExit(queue[w])
                       ELSE [queue |-> queue[w], ppc |-> "fetch",
                             url |-> NoRecordsUrl(url[w])]
                  ELSE IF Len(queue[w]) < QueueMaxsize
                       THEN AfterPut(Append(queue[w], idx), token)
                       ELSE [queue |-> queue[w], ppc |-> "put", url |-> url[w]]
       IN  /\ queue' = [queue EXCEPT ![w] = now.queue]
           /\ ppc' = [ppc EXCEPT ![w] = now.ppc]
           /\ url' = [url EXCEPT ![w] = now.url]
           /\ pending' = [pending EXCEPT ![w] =
                             IF now.ppc = "put" THEN [idx |-> idx, token |-> token]
                             ELSE @]
    /\ UNCHANGED <<gstate, gcoll, results, sem, hstate, cpc, final_records,
                   envvars, rvars, ovars, pvars>>

\* variant of the resumed put that does not wait for a free slot
PutsOnFullQueue(w) ==
    /\ ppc[w] = "put"
    /\ LET now == AfterPut(Append(queue[w], pending[w].idx), pending[w].token)
       IN  /\ queue' = [queue EXCEPT ![w] = now.queue]
           /\ ppc' = [ppc EXCEPT ![w] = now.ppc]
           /\ url' = [url EXCEPT ![w] = now.url]
    /\ UNCHANGED <<gstate, gcoll, results, sem, hstate, cpc, pending,
                   final_records, served, reqlog, tokens_left, irregular_left, answers_left,
                   envvars, rvars, ovars, pvars>>

\* producer, suspended in queue.put(root) on a full queue, goes on
ProducerPut(w) ==
    /\ ppc[w] = "put"
    /\ Len(queue[w]) < QueueMaxsize
    /\ LET now == AfterPut(Append(queue[w], pending[w].idx), pending[w].token)
       IN  /\ queue' = [queue EXCEPT ![w] = now.queue]
           /\ ppc' = [ppc EXCEPT ![w] = now.ppc]
           /\ url' = [url EXCEPT ![w] = now.url]
    /\ UNCHANGED <<gstate, gcoll, results, sem, hstate, cpc, pending,
                   final_records, served, reqlog, tokens_left, irregular_left, answers_left,
                   envvars, rvars, ovars, pvars>>

\* producer, suspended in queue.put(None) on a full queue, goes on
ProducerSentinel(w) ==
    /\ ppc[w] = "sentinel"
    /\ Len(queue[w]) < QueueMaxsize
    /\ queue' = [queue EXCEPT ![w] = Append(@, Sentinel)]
    /\ ppc' = [ppc EXCEPT ![w] = "done"]
    /\ UNCHANGED <<gstate, gcoll, results, sem, hstate, cpc, url, pending,
                   final_records, served, reqlog, tokens_left, irregular_left, answers_left,
                   envvars, rvars, ovars, pvars>>

RECURSIVE ConsumerLoop(_, _, _)
\* the consumer's while True loop over the items the queue holds: the break on
\* None, the flattening of a page into final_records; an exception raised
\* while flattening is not caught and ends the task; on an empty queue the
\* consumer suspends in queue.get()
ConsumerLoop(w, q, recs) ==
    IF q = <<>> THEN [queue |-> q, final_records |-> recs, cpc |-> "get"]
    ELSE IF Head(q) = Sentinel
    THEN [queue |-> Tail(q), final_records |-> recs, cpc |-> "done"]
    ELSE IF served[w][Head(q)].kind = "bad"
    THEN [queue |-> Tail(q), final_records |-> recs, cpc |-> "failed"]
    ELSE ConsumerLoop(w, Tail(q), Append(recs, Head(q)))

\* consumer, from an item being available to its next suspension
Consumer(w) ==
    /\ cpc[w] = "get"
    /\ queue[w] # <<>>
    /\ LET now == ConsumerLoop(w, queue[w], final_records[w])
       IN  /\ queue' = [queue EXCEPT ![w] = now.queue]
           /\ final_records' = [final_records EXCEPT ![w] = now.final_records]
           /\ cpc' = [cpc EXCEPT ![w] = now.cpc]
    /\ UNCHANGED <<gstate, gcoll, results, sem, hstate, ppc, url, pending,
                   served, reqlog, tokens_left, irregular_left, answers_left, envvars, rvars, ovars, pvars>>

\* outcome of await asyncio.gather(t_prod, t_cons): the first exception of a
\* task is raised at once, otherwise it returns when both tasks are done
HarvestOutcome(w) ==
    IF cpc[w] = "failed" THEN "raised"
    ELSE IF ppc[w] = "done" /\ cpc[w] = "done" THEN "returned"
    ELSE "running"

\* _harvest_collection_concurrent ends (the intermediate parquet it writes
\* is not part of the state) and harvest_worker leaves the semaphore block
HarvestEnd(w) ==
    /\ hstate[w] = "running"
    /\ HarvestOutcome(w) # "running"
    /\ hstate' = [hstate EXCEPT ![w] = HarvestOutcome(w)]
    /\ sem' = sem + 1
    /\ UNCHANGED <<gstate, gcoll, results, ppc, cpc, url, pending, queue,
                   final_records, served, reqlog, tokens_left, irregular_left, answers_left,
                   envvars, rvars, ovars, pvars>>

\* records of window w as get_all_records sees them
WindowRecords(w) == [i \in 1..Len(final_records[w]) |-> <<w, final_records[w][i]>>]

RECURSIVE FlattenFrom(_, _)
\* all_records.extend(res) for the windows w..last of collection c, in order
FlattenFrom(c, w) ==
    IF w > c * nchunks THEN <<>>
    ELSE WindowRecords(w) \o FlattenFrom(c, w + 1)

\* chunk_results = await asyncio.gather(*tasks) raises: a worker raised
GatherRaise ==
    /\ gstate = "running"
    /\ \E w \in WindowsOf(gcoll) : hstate[w] = "raised"
    /\ gstate' = "raised"
    /\ UNCHANGED <<gcoll, results, sem, hstate, ppc, cpc, url, pending, queue,
                   final_records, served, reqlog, tokens_left, irregular_left, answers_left,
                   envvars, rvars, ovars, pvars>>

\* chunk_results = await asyncio.gather(*tasks) returns: results[collection]
\* is set and the loop goes to the next collection, or returns
GatherDone ==
    /\ gstate = "running"
    /\ \A w \in WindowsOf(gcoll) : hstate[w] = "returned"
    /\ results' = results @@ (gcoll :> FlattenFrom(gcoll, (gcoll - 1) * nchunks + 1))
    /\ IF gcoll < ncoll
       THEN /\ gcoll' = gcoll + 1
            /\ SpawnWindows(gcoll + 1)
            /\ UNCHANGED gstate
       ELSE /\ gstate' = "returned"
            /\ UNCHANGED <<gcoll, hstate>>
    /\ UNCHANGED <<sem, ppc, cpc, url, pending, queue, final_records, served,
                   reqlog, tokens_left, irregular_left, answers_left, envvars, rvars, ovars, pvars>>

\* asyncio.gather(*tasks) of get_all_records has its outcome: a worker
\* raised, or all workers returned (get_all_records has not run since)
OuterGatherDone ==
    \/ \E w \in WindowsOf(gcoll) : hstate[w] = "raised"
    \/ \A w \in WindowsOf(gcoll) : hstate[w] = "returned"

\* the worker tasks a cancel of get_all_records reaches: cancelling a task
\* cancels the gather it waits for, unless that gather is done, and a
\* cancelled gather cancels its children that are not done
WorkerCancelled(w) ==
    /\ w \in WindowsOf(gcoll)
    /\ ~OuterGatherDone
    /\ hstate[w] \in {"waiting", "running"}

\* the workers whose producer and consumer the cancel reaches: those waiting
\* for a gather(t_prod, t_cons) that is not done
ChildrenCancelled(w) ==
    /\ WorkerCancelled(w)
    /\ hstate[w] = "running"
    /\ HarvestOutcome(w) = "running"

\* the task running get_all_records is cancelled while it waits in
\* asyncio.gather(*tasks): CancelledError is raised in it and in every task
\* the cancel reaches (the producer's except Exception does not catch it); a
\* cancelled worker leaves the semaphore block
CancelHarvest ==
    /\ gstate = "running"
    /\ gstate' = "cancelled"
    /\ hstate' = [w \in Windows |-> IF WorkerCancelled(w) THEN "cancelled" ELSE hstate[w]]
    /\ ppc' = [w \in Windows |->
                 IF ChildrenCancelled(w) /\ ppc[w] # "done" THEN "cancelled" ELSE ppc[w]]
    /\ cpc' = [w \in Windows |->
                 IF ChildrenCancelled(w) /\ cpc[w] # "done" THEN "cancelled" ELSE cpc[w]]
    /\ sem' = sem + Cardinality({w \in Windows : WorkerCancelled(w) /\ hstate[w] = "running"})
    /\ UNCHANGED <<gcoll, results, url, pending, queue, final_records, served,
                   reqlog, tokens_left, irregular_left, answers_left, envvars,
                   rvars, ovars, pvars>>

NextHarvest ==
    \/ GetAllRecords
    \/ \E w \in Windows : HarvestWorker(w)
    \/ \E w \in Windows : \E kind \in PageKinds : \E token \in {0, PageAsked(url[w]) + 1} :
          ProducerFetch(w, kind, token)
    \/ \E w \in Windows : ProducerPut(w)
    \/ \E w \in Windows : ProducerSentinel(w)
    \/ \E w \in Windows : Consumer(w)
    \/ \E w \in Windows : HarvestEnd(w)
    \/ GatherRaise
    \/ GatherDone

(***************************************************************************)
(* pure_oai.PureOAIClient                                                  *)
(*                                                                         *)
(* get_all_records suspends only in self.request; everything else runs     *)
(* without a task switch.                                                  *)
(***************************************************************************)
\* load_dataframe_parquet(f"pure_{collection}") on a cache entry:
\*   "absent"  no file: returns None
\*   "corrupt" pl.read_parquet raises
\*   "ok"      returns the frame holding rows
CacheEntries ==
    { [status |-> "absent", rows |-> <<>>],
      [status |-> "corrupt", rows |-> <<>>],
      [status |-> "ok", rows |-> <<>>],
      [status |-> "ok", rows |-> <<1>>] }

\* url = f"{self.BASEURL}?verb=ListRecords&metadataPrefix={self.SCHEMA}&set={collection}"
oai_url == [params |-> <<"verb", "metadataPrefix", "set">>, token |-> 0]

RECURSIVE SplitBefore(_, _)
\* url.split("&metadataPrefix", maxsplit=1)[0]: the parameters before name
SplitBefore(params, name) ==
    IF params = <<>> \/ Head(params) = name THEN <<>>
    ELSE <<Head(params)>> \o SplitBefore(Tail(params), name)

\* resume_url
resume_url == SplitBefore(oai_url.params, "metadataPrefix")

\* f"{resume_url}&resumptionToken={token_text}"
OAIResumeUrl(token) ==
    [params |-> Append(resume_url, "resumptionToken"), token |-> token]

\* The while loop of get_collection_data after the records of a page were
\* appended: the break statement leaves the loop, so the resumption-token
\* code after it is not reached and url is never replaced.
OAINextUrl(token) == NoUrl

\* variant of the cache lookup that never takes the cached frame
IgnoresCache(c) == FALSE

\* variant of the cache lookup in which a failing load is not a miss: the
\* collection is given the empty result and is not fetched
TakesCorruptEntry(c) ==
    /\ use_cache_for_retrieval
    /\ \/ cache[c].status = "corrupt"
       \/ cache[c].status = "ok" /\ Len(cache[c].rows) > 0

\* the cache lookup of get_all_records for one collection: TRUE on a hit
CacheHit(c) ==
    /\ use_cache_for_retrieval
    /\ cache[c].status = "ok"
    /\ Len(cache[c].rows) > 0

\* save_dataframe_parquet for every collection with records; a failing save
\* is ignored.  written is the set of collections whose save succeeded.
Persist(res, written) ==
    [c \in DOMAIN cache |->
        IF persist_intermediate /\ c \in DOMAIN res /\ res[c] # <<>> /\ c \in written
        THEN [status |-> "ok", rows |-> res[c]]
        ELSE cache[c]]

RECURSIVE OAILoop(_, _)
\* the for loop of get_all_records from collection c on, up to the next
\* request: collections with a cache hit are taken from the cache
OAILoop(c, res) ==
    IF c > Len(collections_to_fetch) THEN [ostate |-> "persist", ocoll |-> c, oresults |-> res]
    ELSE IF CacheHit(c) THEN OAILoop(c + 1, res @@ (c :> cache[c].rows))
    ELSE [ostate |-> "request", ocoll |-> c, oresults |-> res]

InitOAI ==
    /\ ostate = "idle"
    /\ ocoll = 0
    /\ ourl = NoUrl
    /\ ocol_records = <<>>
    /\ oresults = <<>>
    /\ oserved = [c \in DOMAIN collections_to_fetch |-> <<>>]
    /\ oreqlog = [c \in DOMAIN collections_to_fetch |-> <<>>]
    /\ use_cache_for_retrieval \in BOOLEAN
    /\ persist_intermediate \in BOOLEAN
    /\ cache \in [DOMAIN collections_to_fetch -> CacheEntries]

\* get_all_records goes on from collection c: to the request of the next
\* collection to fetch, or through the persist step to its return
OAIContinue(c, res, written) ==
    LET now == OAILoop(c, res)
    IN  /\ oresults' = now.oresults
        /\ ocoll' = now.ocoll
        /\ ocol_records' = <<>>
        /\ IF now.ostate = "request"
           THEN /\ ostate' = "request"
                /\ ourl' = oai_url
                /\ UNCHANGED cache
           ELSE /\ ostate' = "returned"
                /\ ourl' = NoUrl
                /\ cache' = Persist(now.oresults, written)

\* get_all_records is called
OAIGetAllRecords(written) ==
    /\ ostate = "idle"
    /\ OAIContinue(1, oresults, written)
    /\ UNCHANGED <<oserved, oreqlog, use_cache_for_retrieval,
                   persist_intermediate, rvars, hvars, pvars>>

\* the answer to self.request("GET", url) of get_collection_data: a failed
\* request and a page that cannot be parsed or flattened raise out of
\* get_all_records; otherwise the page's records are appended and the loop
\* goes on
OAIResponse(kind, token, written) ==
    /\ ostate = "request"
    /\ token \in {0, PageAsked(ourl) + 1}
    /\ token # 0 => PageAsked(ourl) <= MaxTokens /\ kind \in {"ok", "bad"}
    /\ oreqlog' = [oreqlog EXCEPT ![ocoll] = Append(@, ourl)]
    /\ oserved' = [oserved EXCEPT ![ocoll] =
                      Append(@, [idx |-> PageAsked(ourl), kind |-> kind,
                                 token |-> token])]
    /\ IF kind \in {"err", "bad"}
       THEN /\ ostate' = "raised"
            /\ UNCHANGED <<ocoll, ourl, ocol_records, oresults, cache>>
       ELSE LET recs == IF kind = "ok" THEN Append(ocol_records, PageAsked(ourl))
                        ELSE ocol_records
            IN  IF OAINextUrl(token) # NoUrl
                THEN /\ ourl' = OAINextUrl(token)
                     /\ ocol_records' = recs
                     /\ UNCHANGED <<ostate, ocoll, oresults, cache>>
                ELSE OAIContinue(ocoll + 1, oresults @@ (ocoll :> recs), written)
    /\ UNCHANGED <<use_cache_for_retrieval, persist_intermediate, rvars, hvars, pvars>>

NextOAI ==
    \/ \E written \in SUBSET DOMAIN collections_to_fetch : OAIGetAllRecords(written)
    \/ \E kind \in PageKinds : \E token \in 0..(MaxTokens + 1) :
          \E written \in SUBSET DOMAIN collections_to_fetch :
             OAIResponse(kind, token, written)

(***************************************************************************)
(* processing.matching.resolve_missing_ids                                 *)
(*                                                                         *)
(* A frame is a sequence of rows.  Scores are counted in hundredths: the   *)
(* boost of 0.05 is 5 and a threshold of 0.8 is 80; the sums and           *)
(* comparisons the code makes on such values are exact in floating point   *)
(* as well.                                                                *)
(***************************************************************************)
\* null in an id or doi column
None == 0
\* null in the title column
NoTitle == "None"

\* score += 0.05
TrustBonus == 5

\* longest list of work ids the title search returns
MaxCandidates == 2

\* values of ratio(name, title) of a work, and the thresholds of the calls
Ratios == {75, 80}
Thresholds == {80, 85}

\* the frames resolve_missing_ids is called with: rows of title, id and doi;
\* 9 is an id or doi the row already has
Frames ==
    { << [title |-> "a", id |-> None, doi |-> None],
         [title |-> "b", id |-> None, doi |-> None] >>,
      << [title |-> "a", id |-> None, doi |-> None],
         [title |-> "a", id |-> 9, doi |-> None],
         [title |-> NoTitle, id |-> None, doi |-> None] >>,
      << [title |-> "a", id |-> None, doi |-> 9],
         [title |-> "b", id |-> 9, doi |-> 9] >>,
      << [title |-> "a", id |-> 9, doi |-> 9] >> }

\* What one call of client.get_works_by_title can meet: the title search
\* raises, or it returns work ids and the detail fetch of each id gives a
\* work (with its ratio to the title and whether UT is a corresponding
\* institution) or fails.
Items ==
    [ok : {TRUE}, ratio : Ratios, has_ut : BOOLEAN] \cup
    {[ok |-> FALSE, ratio |-> 0, has_ut |-> FALSE]}
ItemLists == UNION {[1..n -> Items] : n \in 0..MaxCandidates}
Answers ==
    {[raises |-> TRUE, items |-> <<>>]} \cup [raises : {FALSE}, items : ItemLists]

RECURSIVE WorksFrom(_, _)
\* OpenAlexClient.get_works_by_title after the title search: the responses
\* of gather(*coros, return_exceptions=True) in order, a failed one skipped;
\* the work of the i-th id has id i and doi i
WorksFrom(items, i) ==
    IF i > Len(items) THEN <<>>
    ELSE (IF items[i].ok
          THEN <<[id |-> i, doi |-> i, ratio |-> items[i].ratio,
                  has_ut |-> items[i].has_ut]>>
          ELSE <<>>) \o WorksFrom(items, i + 1)

\* variant of the lookup in which a raising title search yields a work
LookupInventsWork(answer) ==
    IF answer.raises
    THEN <<[id |-> 1, doi |-> 1, ratio |-> 80, has_ut |-> TRUE]>>
    ELSE WorksFrom(answer.items, 1)

\* works = await client.get_works_by_title(t), [] when it raises
LookupWorks(answer) ==
    IF answer.raises THEN <<>> ELSE WorksFrom(answer.items, 1)

\* variant of the score without the boost
ScoreWithoutBoost(w) == w.ratio

\* score = ratio(...), plus 0.05 when UT is a corresponding institution
Score(w) == w.ratio + (IF w.has_ut THEN TrustBonus ELSE 0)

\* best = None
NoWork == [id |-> None, doi |-> None, ratio |-> 0, has_ut |-> FALSE]

RECURSIVE LastBestFrom(_, _, _)
\* variant of the selection loop in which a later work of equal score wins
LastBestFrom(works, best, best_score) ==
    IF works = <<>> THEN [best |-> best, best_score |-> best_score]
    ELSE IF Score(Head(works)) >= best_score
    THEN LastBestFrom(Tail(works), Head(works), Score(Head(works)))
    ELSE LastBestFrom(Tail(works), best, best_score)

RECURSIVE BestFrom(_, _, _)
\* for w in works: if score > best_score: best = w; best_score = score
BestFrom(works, best, best_score) ==
    IF works = <<>> THEN [best |-> best, best_score |-> best_score]
    ELSE IF Score(Head(works)) > best_score
    THEN BestFrom(Tail(works), Head(works), Score(Head(works)))
    ELSE BestFrom(Tail(works), best, best_score)

\* the rows of candidates one title adds: if best and best_score >= threshold
CandidateOf(t, works, threshold) ==
    LET b == BestFrom(works, NoWork, 0)
    IN  IF b.best # NoWork /\ b.best_score >= threshold
        THEN <<[search_title |-> t, oa_id |-> b.best.id, oa_doi |-> b.best.doi]>>
        ELSE <<>>

\* to_search: the unique non-null titles of the rows without id
ToSearch(df) ==
    {df[i].title : i \in {j \in 1..Len(df) : df[j].id = None /\ df[j].title # NoTitle}}

\* variant of the fill that takes the new value whenever there is one
TakesNew(old, new) == IF new # None THEN new ELSE old

\* pl.when(col.is_null()).then(new).otherwise(col)
FillNull(old, new) == IF old = None THEN new ELSE old

\* the left join of df with the candidates on the title, the fill of id and
\* doi, and the drop of the joined columns; a null title joins nothing
JoinBack(df, cands) ==
    [i \in 1..Len(df) |->
        LET hit == {k \in 1..Len(cands) :
                      df[i].title # NoTitle /\ cands[k].search_title = df[i].title}
        IN  IF hit = {} THEN df[i]
            ELSE LET c == cands[CHOOSE k \in hit : TRUE]
                 IN  [title |-> df[i].title,
                      id |-> FillNull(df[i].id, c.oa_id),
                      doi |-> FillNull(df[i].doi, c.oa_doi)]]

\* resolve_missing_ids from the point where no title is left to look up:
\* if not candidates: return df; else the join
ResolveResult(df, cands) == IF cands = <<>> THEN df ELSE JoinBack(df, cands)

InitProcessing ==
    /\ pstate = "idle"
    /\ fn = "none"
    /\ args = <<>>
    /\ ret = <<>>
    /\ to_search = {}
    /\ lookups = <<>>
    /\ candidates = <<>>

\* resolve_missing_ids(df, client, threshold=threshold) is called: up to the
\* first lookup, or to the return when no title needs one
ResolveCall(df, threshold) ==
    /\ pstate = "idle"
    /\ fn' = "resolve_missing_ids"
    /\ args' = [df |-> df, threshold |-> threshold]
    /\ to_search' = ToSearch(df)
    /\ IF ToSearch(df) = {}
       THEN /\ pstate' = "returned"
            /\ ret' = ResolveResult(df, <<>>)
       ELSE /\ pstate' = "searching"
            /\ UNCHANGED ret
    /\ UNCHANGED <<lookups, candidates, rvars, hvars, ovars>>

\* the lookup of title t is answered: the selection of the best work, and
\* the next lookup or, after the last title, the join and the return
SearchTitle(t, answer) ==
    /\ pstate = "searching"
    /\ fn = "resolve_missing_ids"
    /\ t \in to_search
    /\ lookups' = lookups @@ (t :> answer)
    /\ to_search' = to_search \ {t}
    /\ LET cands == candidates \o CandidateOf(t, LookupWorks(answer), args.threshold)
       IN  /\ candidates' = cands
           /\ IF to_search \ {t} = {}
              THEN /\ pstate' = "returned"
                   /\ ret' = ResolveResult(args.df, cands)
              ELSE UNCHANGED <<pstate, ret>>
    /\ UNCHANGED <<fn, args, rvars, hvars, ovars>>

(***************************************************************************)
(* current_marimo_monolith.add_missing_items_by_title: the coalescing of   *)
(* the columns the three title joins added                                 *)
(***************************************************************************)
\* the empty string
Empty == -1

\* A column group of one row of with_more_works: the base column and the
\* columns suffixed _oa_extra, _oa_extra_2, _oa_extra_3.  A cell is null, the
\* empty string, or a value: 9 in the base column, k in the column of join k.
Groups ==
    {g \in [1..4 -> {None, Empty, 1, 2, 3, 9}] :
        \A k \in 1..4 : g[k] \in {None, Empty, IF k = 1 THEN 9 ELSE k - 1}}

\* variant: empty strings are left as they are
KeepsEmpty(v) == v

\* pl.when(pl.col(col).eq("")).then(pl.lit(None)).otherwise(pl.col(col))
NullIfEmpty(v) == IF v = Empty THEN None ELSE v

RECURSIVE coalesce(_)
\* pl.coalesce(*col_group): the first value that is not null
coalesce(group) ==
    IF group = <<>> THEN None
    ELSE IF Head(group) # None THEN Head(group)
    ELSE coalesce(Tail(group))

\* one column group of final_df
CoalesceGroup(group) == coalesce([k \in 1..Len(group) |-> NullIfEmpty(group[k])])

\* add_missing_items_by_title from the joined frame on, for one row: empty
\* strings become nulls, every group is coalesced into its base column and
\* the suffixed columns are dropped
AddMissingItemsByTitle(row) ==
    /\ pstate = "idle"
    /\ pstate' = "returned"
    /\ fn' = "add_missing_items_by_title"
    /\ args' = [with_more_works |-> row]
    /\ ret' = [id |-> CoalesceGroup(row.id), doi |-> CoalesceGroup(row.doi)]
    /\ UNCHANGED <<to_search, lookups, candidates, rvars, hvars, ovars>>

(***************************************************************************)
(* processing.cleaning.normalize_doi and processing.merging.merge_datasets *)
(*                                                                         *)
(* A DOI string is a sequence of tokens: "p" is the text https://doi.org/, *)
(* "P" the same text in upper case, " " a whitespace character, "x" and    *)
(* "y" lower-case text of a DOI and "X" the text x in upper case.          *)
(***************************************************************************)
\* a null DOI
NoDoi == <<"None">>

\* longest frame given to merge_datasets
MaxRows == 2

\* the DOI column values of the frames: null, 10.1/x, "10.1/X ",
\* https://doi.org/10.1/x, HTTPS://DOI.ORG/10.1/X, 10.1/y
Dois == {NoDoi, <<"x">>, <<"X", " ">>, <<"p", "x">>, <<"P", "X">>, <<"y">>}
DoiLists == UNION {[1..n -> Dois] : n \in 1..MaxRows}

\* .fill_null("")
FillNullDoi(d) == IF d = NoDoi THEN <<>> ELSE d

RECURSIVE ReplaceFirst(_)
\* .str.replace("https://doi.org/", ""): the first occurrence is removed
ReplaceFirst(s) ==
    IF s = <<>> THEN <<>>
    ELSE IF Head(s) = "p" THEN Tail(s)
    ELSE <<Head(s)>> \o ReplaceFirst(Tail(s))

\* .str.to_lowercase()
ToLowercase(s) ==
    [i \in 1..Len(s) |-> IF s[i] = "X" THEN "x" ELSE IF s[i] = "P" THEN "p" ELSE s[i]]

RECURSIVE StripStart(_)
StripStart(s) == IF s # <<>> /\ Head(s) = " " THEN StripStart(Tail(s)) ELSE s
RECURSIVE StripEnd(_)
StripEnd(s) ==
    IF s # <<>> /\ s[Len(s)] = " " THEN StripEnd(SubSeq(s, 1, Len(s) - 1)) ELSE s
\* .str.strip_chars()
StripChars(s) == StripEnd(StripStart(s))

\* normalize_doi, the value of the new column for one DOI
normalize_doi(d) == StripChars(ToLowercase(ReplaceFirst(FillNullDoi(d))))

\* the frames of merge_datasets: full_df has doi and title, oils_df has doi
\* and oils_extra; title and oils_extra are the number of the row
FullFrame(dois) == [i \in 1..Len(dois) |-> [doi |-> dois[i], title |-> i]]
OilsFrame(dois) == [j \in 1..Len(dois) |-> [doi |-> dois[j], oils_extra |-> j]]

\* variant of the join key: the DOI as given
RawDoi(row) == row.doi

\* the key of the join: the column _norm_doi
NormDoi(row) == normalize_doi(row.doi)

RECURSIVE JoinRow(_, _, _)
\* the rows of the left join for one row of full: one per row of oils of
\* equal key, from row j on
JoinRow(row, oils, j) ==
    IF j > Len(oils) THEN <<>>
    ELSE (IF NormDoi(oils[j]) = NormDoi(row)
          THEN <<[doi |-> row.doi, title |-> row.title, _norm_doi |-> NormDoi(row),
                  doi_oils |-> oils[j].doi, oils_extra |-> oils[j].oils_extra]>>
          ELSE <<>>) \o JoinRow(row, oils, j + 1)

RECURSIVE LeftJoin(_, _, _)
\* full.join(oils, left_on="_norm_doi", right_on="_norm_doi", how="left",
\* suffix="_oils") from row i of full on: a row without partner keeps nulls
LeftJoin(full, oils, i) ==
    IF i > Len(full) THEN <<>>
    ELSE (IF JoinRow(full[i], oils, 1) # <<>> THEN JoinRow(full[i], oils, 1)
          ELSE <<[doi |-> full[i].doi, title |-> full[i].title,
                  _norm_doi |-> NormDoi(full[i]),
                  doi_oils |-> NoDoi, oils_extra |-> None]>>)
         \o LeftJoin(full, oils, i + 1)

\* merge_datasets(oils_df, full_df)
MergeDatasets(oils_df, full_df) ==
    /\ pstate = "idle"
    /\ pstate' = "returned"
    /\ fn' = "merge_datasets"
    /\ args' = [oils_df |-> oils_df, full_df |-> full_df]
    /\ ret' = LeftJoin(full_df, oils_df, 1)
    /\ UNCHANGED <<to_search, lookups, candidates, rvars, hvars, ovars>>

\* the DOI strings given to normalize_doi alone: those of the frames, "",
\* https://doi.org/https://doi.org/10.1/x, " 10.1/x " and https://doi.org/
DoiStrings == Dois \cup {<<>>, <<"p", "p", "x">>, <<" ", "x", " ">>, <<"p">>}

\* normalize_doi on a one-row frame whose DOI column holds d
NormalizeDoi(d) ==
    /\ pstate = "idle"
    /\ pstate' = "returned"
    /\ fn' = "normalize_doi"
    /\ args' = d
    /\ ret' = normalize_doi(d)
    /\ UNCHANGED <<to_search, lookups, candidates, rvars, hvars, ovars>>

(***************************************************************************)
(* processing.merging.deduplicate                                          *)
(*                                                                         *)
(* A frame is [has_doi, rows]: has_doi says whether doi_col is one of its  *)
(* columns.  A row has the columns n (its place in the input, standing for *)
(* every other column), doi and title; titles are token sequences as DOIs  *)
(* are.                                                                    *)
(***************************************************************************)
\* the DOI and title column values of the frames given to deduplicate
DedupDois == {NoDoi, <<"x">>, <<"X", " ">>, <<"y">>}
Titles == {<<"x">>, <<"X", " ">>, <<"y">>}

DedupRows(has_doi, len) ==
    {r \in [1..len -> [n : 1..len, doi : DedupDois, title : Titles]] :
        \A i \in 1..len : r[i].n = i /\ (has_doi \/ r[i].doi = NoDoi)}
DedupFrames ==
    UNION {{[has_doi |-> h, rows |-> r] : r \in DedupRows(h, len)} :
              h \in BOOLEAN, len \in 1..MaxRows}

\* normalize_doi(df, doi_col, new_col="_norm_doi"): a null column when the
\* frame has no doi_col
WithNormDoi(df) ==
    [i \in 1..Len(df.rows) |->
        [n |-> df.rows[i].n, doi |-> df.rows[i].doi, title |-> df.rows[i].title,
         _norm_doi |-> IF df.has_doi THEN normalize_doi(df.rows[i].doi) ELSE NoDoi]]

\* pl.col(title_col).str.to_lowercase().str.strip_chars()
NormTitle(row) == StripChars(ToLowercase(row.title))

RECURSIVE Filter(_, _)
\* df.filter: the rows whose flag is set, in order
Filter(rows, flags) ==
    IF rows = <<>> THEN <<>>
    ELSE (IF Head(flags) THEN <<Head(rows)>> ELSE <<>>) \o Filter(Tail(rows), Tail(flags))

\* every order of the members of a set
Orders(S) ==
    {f \in [1..Cardinality(S) -> S] : \A a, b \in 1..Cardinality(S) : a # b => f[a] # f[b]}

\* variant of unique: every row is kept
KeepsEveryRow(rows, keys) == Orders({rows[i] : i \in 1..Len(rows)})

\* df.unique(subset=...) with the defaults keep="any", maintain_order=False:
\* the frames it may return, one row for every value of the key (keys[i] is
\* the key of rows[i]), whichever row and in whichever order
unique(rows, keys) ==
    UNION {Orders({rows[i] : i \in I}) :
             I \in {J \in SUBSET (1..Len(rows)) :
                      \A i \in 1..Len(rows) :
                          Cardinality({j \in J : keys[j] = keys[i]}) = 1}}

\* the frames deduplicate may return
deduplicate(df) ==
    LET df_norm == WithNormDoi(df)
        IsNull == [i \in 1..Len(df_norm) |-> df_norm[i]._norm_doi = NoDoi]
        df_with_doi == Filter(df_norm, [i \in 1..Len(df_norm) |-> ~IsNull[i]])
        no_doi == Filter(df_norm, IsNull)
        df_no_dups ==
            IF df_with_doi # <<>>
            THEN unique(df_with_doi,
                        [i \in 1..Len(df_with_doi) |-> df_with_doi[i]._norm_doi])
            ELSE {df_with_doi}
        no_doi_dedup ==
            IF no_doi # <<>>
            THEN unique(no_doi, [i \in 1..Len(no_doi) |-> NormTitle(no_doi[i])])
            ELSE {no_doi}
    IN  UNION {unique(a \o b, a \o b) : a \in df_no_dups, b \in no_doi_dedup}

\* deduplicate(df), returning the frame out
Deduplicate(df, out) ==
    /\ pstate = "idle"
    /\ out \in deduplicate(df)
    /\ pstate' = "returned"
    /\ fn' = "deduplicate"
    /\ args' = df
    /\ ret' = out
    /\ UNCHANGED <<to_search, lookups, candidates, rvars, hvars, ovars>>

NextProcessing ==
    \/ \E df \in Frames : \E threshold \in Thresholds : ResolveCall(df, threshold)
    \/ \E t \in {"a", "b"} : \E answer \in Answers : SearchTitle(t, answer)
    \/ \E idg \in Groups : \E doig \in Groups :
          AddMissingItemsByTitle([id |-> idg, doi |-> doig])
    \/ \E od \in DoiLists : \E fd \in DoiLists :
          MergeDatasets(OilsFrame(od), FullFrame(fd))
    \/ \E d \in DoiStrings : NormalizeDoi(d)
    \/ \E df \in DedupFrames : \E out \in deduplicate(df) : Deduplicate(df, out)

(***************************************************************************)
(* pure_oai_lxml.generate_date_chunks                                      *)
(*                                                                         *)
(* A date is the number of its day, counted from 1 January of FirstYear;   *)
(* the string strftime makes of it names that day.  A window (from, until) *)
(* is given to the repository as from= and until=, which select the        *)
(* records of the days from..until, both included.                         *)
(***************************************************************************)
\* the years the function is called with
FirstYear == 2022
Years == FirstYear..(FirstYear + 2)

\* the largest chunk_size_days
MaxChunkDays == 30

IsLeap(y) == y % 4 = 0 /\ (y % 100 # 0 \/ y % 400 = 0)
DaysIn(y) == IF IsLeap(y) THEN 366 ELSE 365

RECURSIVE Jan1(_)
\* datetime(y, 1, 1)
Jan1(y) == IF y = FirstYear THEN 0 ELSE Jan1(y - 1) + DaysIn(y - 1)

\* datetime(y, 12, 31)
Dec31(y) == Jan1(y) + DaysIn(y) - 1

\* the end of the chunk that starts at current
ChunkEnd(current, end_date, chunk_size_days) == Min2(current + chunk_size_days, end_date)

\* current: start_date before the first chunk, afterwards the day after the
\* end of the last one
Current ==
    IF ret = <<>> THEN Jan1(args.start_year) ELSE ret[Len(ret)][2] + 1

\* generate_date_chunks(start_year, end_year, chunk_size_days) up to the loop
GenerateDateChunks(start_year, end_year, chunk_size_days) ==
    /\ pstate = "idle"
    /\ pstate' = "chunking"
    /\ fn' = "generate_date_chunks"
    /\ args' = [start_year |-> start_year, end_year |-> end_year,
                chunk_size_days |-> chunk_size_days]
    /\ ret' = <<>>
    /\ UNCHANGED <<to_search, lookups, candidates, rvars, hvars, ovars>>

\* one turn of `while current < end_date`: a chunk is appended, or the loop
\* is left and chunks returned
ChunkLoop ==
    /\ pstate = "chunking"
    /\ IF Current < Dec31(args.end_year)
       THEN /\ ret' = Append(ret, <<Current,
                                     ChunkEnd(Current, Dec31(args.end_year),
                                              args.chunk_size_days)>>)
            /\ UNCHANGED pstate
       ELSE /\ pstate' = "returned"
            /\ UNCHANGED ret
    /\ UNCHANGED <<fn, args, to_search, lookups, candidates, rvars, hvars, ovars>>

NextChunks ==
    \/ \E start_year \in Years : \E end_year \in Years : \E size \in 1..MaxChunkDays :
          start_year <= end_year /\ GenerateDateChunks(start_year, end_year, size)
    \/ ChunkLoop

(***************************************************************************)
(* Specifications                                                          *)
(***************************************************************************)
\* the part of the state a specification does not move
IdleHarvest == InitHarvest(ShortRun)
IdleOAI ==
    /\ InitOAI
    /\ ~use_cache_for_retrieval
    /\ ~persist_intermediate
    /\ \A c \in DOMAIN cache : cache[c].status = "absent"

IdleProcessing == InitProcessing

\* one call of BaseClient.request
InitR == InitRetry /\ IdleHarvest /\ IdleOAI /\ IdleProcessing
SpecRetry == InitR /\ [][NextRetry]_vars

\* one call of get_all_records of pure_oai_lxml.PureOAIClient
InitH == InitRetry /\ (\E run \in {ShortRun, LongRun} : InitHarvest(run)) /\ IdleOAI /\ IdleProcessing
SpecHarvest == InitH /\ [][NextHarvest]_vars

\* one call of get_all_records of pure_oai_lxml.PureOAIClient for a
\* collection of more date windows than the semaphore has slots, or for one
\* window whose chain is longer than the queue
InitL == InitRetry /\ (\E run \in {ManyRun, LongRun} : InitHarvest(run)) /\ IdleOAI /\ IdleProcessing
SpecLimiter == InitL /\ [][NextHarvest]_vars

\* the windows of the run of one long chain
LongWindows == 1..(LongRun.ncoll * LongRun.nchunks)

\* the event loop runs every task that is ready, and every request ends: it
\* is answered, or it times out and its retries are used up
Fairness ==
    /\ \A w \in LongWindows :
          /\ WF_vars(HarvestWorker(w))
          /\ WF_vars(\E kind \in PageKinds : \E token \in {0, PageAsked(url[w]) + 1} :
                        ProducerFetch(w, kind, token))
          /\ WF_vars(ProducerPut(w))
          /\ WF_vars(ProducerSentinel(w))
          /\ WF_vars(Consumer(w))
          /\ WF_vars(HarvestEnd(w))
    /\ WF_vars(GatherRaise)
    /\ WF_vars(GatherDone)

\* get_all_records of pure_oai_lxml.PureOAIClient for one window, whose
\* chain may be longer than the queue, under fair scheduling
InitW == InitRetry /\ InitHarvest(LongRun) /\ IdleOAI /\ IdleProcessing
FairWindow == InitW /\ [][NextHarvest]_vars /\ Fairness

\* one call of get_all_records of pure_oai_lxml.PureOAIClient whose task may
\* be cancelled
NextCancel ==
    \/ NextHarvest
    \/ CancelHarvest
InitC == InitRetry /\ (\E run \in {ShortRun, LongRun} : InitHarvest(run)) /\ IdleOAI /\ IdleProcessing
SpecCancel == InitC /\ [][NextCancel]_vars

\* one call of a function of syntheca.processing
InitP == InitRetry /\ IdleHarvest /\ IdleOAI /\ InitProcessing
SpecProcessing == InitP /\ [][NextProcessing]_vars

\* one call of generate_date_chunks
InitG == InitRetry /\ IdleHarvest /\ IdleOAI /\ InitProcessing
SpecChunks == InitG /\ [][NextChunks]_vars

\* one call of get_all_records of pure_oai.PureOAIClient
InitO == InitRetry /\ IdleHarvest /\ InitOAI /\ IdleProcessing
SpecOAI == InitO /\ [][NextOAI]_vars

(***************************************************************************)
(* BaseClient.request: properties                                          *)
(***************************************************************************)
\* the attempt outcomes tenacity retries
IsTransient(o) == o = NetworkError \/ o = 429 \/ (500 <= o /\ o < 600)
AllTransient(log) == \A i \in 1..Len(log) : IsTransient(log[i])

\* C1: one call of request makes at most 4 HTTP attempts, and a call whose
\* last attempt failed transiently has failed only if that was the 4th
\* attempt and all 4 attempts failed transiently.
C1_AttemptBudget ==
    /\ Len(rlog) <= 4
    /\ (rstate = "raised" /\ rlog # <<>> /\ IsTransient(rlog[Len(rlog)]))
          => /\ Len(rlog) = 4
             /\ AllTransient(rlog)
             /\ attempt_number = 4

\* four transient failures in a row: the call has failed after 4 attempts
C1_Witness ==
    /\ rstate = "raised"
    /\ Len(rlog) = 4
    /\ AllTransient(rlog)

\* C2: an attempt that receives a 4xx status other than 429 is the last
\* attempt of the call, which raises that status error; every attempt that
\* was followed by another one failed transiently.
C2_FatalNotRetried ==
    /\ \A i \in 1..Len(rlog) :
          (400 <= rlog[i] /\ rlog[i] < 500 /\ rlog[i] # 429)
             => /\ i = Len(rlog)
                /\ rstate = "raised"
                /\ rerror = "HTTPStatusError"
    /\ \A i \in 1..(Len(rlog) - 1) : IsTransient(rlog[i])

\* a lone 404: exactly one request and a fatal error
C2_Witness ==
    /\ rlog = <<404>>
    /\ rstate = "raised"
    /\ rerror = "HTTPStatusError"
    /\ attempt_number = 1

\* C3: after k <= 3 transient failures and nothing else the call has not
\* failed and goes on to attempt k+1; when an attempt receives a 2xx the call
\* returns that response at once, after exactly the attempts made so far.
C3_SuccessAfterRetries ==
    /\ (AllTransient(rlog) /\ Len(rlog) <= 3) => rstate \in {"idle", "calling", "sleeping"}
    /\ (rlog # <<>> /\ 200 <= rlog[Len(rlog)] /\ rlog[Len(rlog)] < 300)
          => /\ rstate = "returned"
             /\ rresult = rlog[Len(rlog)]
             /\ attempt_number = Len(rlog)
             /\ Len(rlog) <= 4
             /\ AllTransient(SubSeq(rlog, 1, Len(rlog) - 1))
    /\ rstate = "returned" => (rlog # <<>> /\ rresult = rlog[Len(rlog)])

\* outcomes 429, 429, 200: exactly 3 requests and the 200 is returned
C3_Witness ==
    /\ rlog = <<429, 429, 200>>
    /\ rstate = "returned"
    /\ rresult = 200
    /\ attempt_number = 3

(***************************************************************************)
(* Harvesting: properties                                                  *)
(***************************************************************************)
Last(seq) == seq[Len(seq)]
Range(seq) == {seq[i] : i \in 1..Len(seq)}
ActiveWindows == {w \in Windows : CollOf(w) <= ncoll}

\* the indices of the pages served to window w that carry records
PagesOf(w) == {i \in 1..Len(served[w]) : served[w][i].kind \in {"ok", "bad"}}

\* the server's chain for window w was followed to its end: the last answer
\* is a page without a resumption token, or the noRecordsMatch answer
ChainExhausted(w) ==
    /\ served[w] # <<>>
    /\ Last(served[w]).kind \in {"ok", "bad", "norec"}
    /\ Last(served[w]).token = 0

\* C4 (pure_oai.py): when get_all_records has returned, every collection it
\* fetched from the server was followed to the page without a resumption
\* token, with one request per page, and its result holds the records of all
\* these pages.
C4_ChainFollowed ==
    ostate = "returned" =>
        \A c \in DOMAIN oserved :
            oserved[c] # <<>> =>
                /\ Last(oserved[c]).token = 0
                /\ Len(oreqlog[c]) = Len(oserved[c])
                /\ Range(oresults[c]) =
                      {i \in 1..Len(oserved[c]) : oserved[c][i].kind = "ok"}

\* C5: when get_all_records has returned normally, every window it harvested
\* followed its chain to the end (a failed or truncated window would have
\* been reported).
C5_NoSilentDrop ==
    gstate = "returned" => \A w \in ActiveWindows : ChainExhausted(w)

\* C6: a failure in one window never makes get_all_records raise, and when it
\* returns, the result of each collection holds the records of every window.
C6_FailureIsolated ==
    /\ gstate # "raised"
    /\ gstate = "returned" =>
          \A w \in ActiveWindows :
              \A i \in Range(final_records[w]) : <<w, i>> \in Range(results[CollOf(w)])

\* C7: a consumer that has terminated has dequeued the sentinel, which the
\* producer put once and last; by then every page the producer enqueued has
\* been consumed and its records are in final_records.
C7_SentinelEndsConsumer ==
    \A w \in ActiveWindows :
        /\ cpc[w] \in {"done", "failed"} =>
              /\ ppc[w] = "done"
              /\ queue[w] = <<>>
              /\ Range(final_records[w]) = PagesOf(w)
        /\ \A i \in 1..Len(queue[w]) : queue[w][i] = Sentinel => i = Len(queue[w])

\* every answer the server gave window w so far is an ordinary page
Healthy(w) == \A i \in 1..Len(served[w]) : served[w][i].kind = "ok"
Ended(w) == hstate[w] \in {"returned", "raised"}

\* C8, in every state: the producer makes one request per page, page after
\* page, and none after a page without a resumption token; a window whose
\* answers were all ordinary pages does not raise, and once it has ended it
\* has returned the records of every page of the chain, in order.
C8_OneRequestPerPage ==
    \A w \in Windows :
        /\ Len(reqlog[w]) = Len(served[w])
        /\ \A i \in 1..Len(served[w]) :
              /\ served[w][i].idx = i
              /\ i < Len(served[w]) => served[w][i].token = i + 1
        /\ (Healthy(w) /\ Ended(w)) =>
              /\ hstate[w] = "returned"
              /\ ChainExhausted(w)
              /\ final_records[w] = [i \in 1..Len(served[w]) |-> i]

\* C8: a window harvester fed a finite cursor chain ends: one request per
\* page (C8_OneRequestPerPage), and every window that runs eventually leaves
\* _harvest_collection_concurrent, in Done (returned) unless an answer of the
\* server was not an ordinary page.
C8_FiniteChainTerminates ==
    /\ []C8_OneRequestPerPage
    /\ \A w \in LongWindows :
          (hstate[w] = "running") ~> (Ended(w) /\ (Healthy(w) => hstate[w] = "returned"))

\* a chain of two pages, the second without a token: two requests, returned
C8_Witness ==
    \E w \in Windows :
        /\ hstate[w] = "returned"
        /\ Len(reqlog[w]) = 2
        /\ Healthy(w)
        /\ final_records[w] = <<1, 2>>

\* C9: the first request of a window is the initial url; every later request
\* carries exactly the parameters verb and resumptionToken, the token being
\* the one the previous page returned.  The resumed url pure_oai.py builds
\* has exactly these two parameters as well.
C9_ResumeOnlyToken ==
    /\ \A w \in Windows : \A i \in 1..Len(reqlog[w]) :
          IF i = 1 THEN reqlog[w][i] = initial_url
          ELSE /\ reqlog[w][i].params = <<"verb", "resumptionToken">>
               /\ reqlog[w][i].token # 0
               /\ reqlog[w][i].token = served[w][i - 1].token
    /\ \A t \in 1..(MaxTokens + 1) :
          OAIResumeUrl(t) = [params |-> <<"verb", "resumptionToken">>, token |-> t]

\* a window has sent a resumed request
C9_Witness ==
    \E w \in Windows :
        /\ Len(reqlog[w]) >= 2
        /\ reqlog[w][2].token = 2

\* C10: a noRecordsMatch answer is the last answer of its window: the
\* producer leaves its loop with no url, the answer is not queued and adds no
\* record; a window whose answers are pages and noRecordsMatch only does not
\* raise, and if no window got any other answer get_all_records does not
\* raise and returns the records of every window.
C10_NoRecordsIsEmptyResult ==
    /\ \A w \in Windows : \A i \in 1..Len(served[w]) :
          served[w][i].kind = "norec" =>
              /\ i = Len(served[w])
              /\ ppc[w] \in {"sentinel", "done"}
              /\ url[w] = NoUrl
              /\ i \notin Range(queue[w])
              /\ i \notin Range(final_records[w])
    /\ \A w \in Windows :
          (\A i \in 1..Len(served[w]) : served[w][i].kind \in {"ok", "norec"})
              => (hstate[w] # "raised" /\ cpc[w] # "failed")
    /\ (\A w \in Windows : \A i \in 1..Len(served[w]) :
            served[w][i].kind \in {"ok", "norec"}) => gstate # "raised"
    /\ gstate = "returned" =>
          \A w \in ActiveWindows :
              \A i \in Range(final_records[w]) : <<w, i>> \in Range(results[CollOf(w)])

\* the first window of a collection got noRecordsMatch at once and returned
\* nothing after one request; its sibling's records are in the result
C10_Witness ==
    /\ gstate = "returned"
    /\ ncoll = 2
    /\ served[1] = <<[idx |-> 1, kind |-> "norec", token |-> 0]>>
    /\ hstate[1] = "returned"
    /\ final_records[1] = <<>>
    /\ results[1] = <<<<2, 1>>>>

\* the pages (not the sentinel) the queue of window w holds
Buffered(w) == {i \in 1..Len(queue[w]) : queue[w][i] # Sentinel}

\* C11: the queue of a window never holds more than 10 items, so never more
\* than 10 parsed pages; a producer suspended in put holds the one page it
\* fetched last, which is not in the queue, and it was suspended on a full
\* queue: the queue is still full unless the consumer has run since (it then
\* drained the queue, or failed on a page).
C11_QueueBounded ==
    \A w \in Windows :
        /\ Len(queue[w]) <= QueueMaxsize
        /\ Cardinality(Buffered(w)) <= QueueMaxsize
        /\ ppc[w] = "put" =>
              /\ pending[w].idx = Len(served[w])
              /\ pending[w].idx \notin Range(queue[w])
              /\ Len(reqlog[w]) = pending[w].idx
              /\ \/ Len(queue[w]) = QueueMaxsize
                 \/ queue[w] = <<>>
                 \/ cpc[w] = "failed"
        /\ ppc[w] = "sentinel" =>
              \/ Len(queue[w]) = QueueMaxsize
              \/ queue[w] = <<>>
              \/ cpc[w] = "failed"

\* the producer has fetched 11 pages while the consumer took none: 10 are
\* buffered and the producer is suspended in the put of the 11th
C11_Witness ==
    \E w \in Windows :
        /\ Len(served[w]) = QueueMaxsize + 1
        /\ Cardinality(Buffered(w)) = QueueMaxsize
        /\ ppc[w] = "put"
        /\ final_records[w] = <<>>

\* the windows inside async with semaphore
InFlight == {w \in Windows : hstate[w] = "running"}

\* C12: at most 10 windows are in flight at any moment; every window in
\* flight holds one slot of the semaphore and no other window holds one, so a
\* window that has ended, returned or raised, has given its slot back; while
\* 10 windows are in flight no further window enters, and only windows in
\* flight have a producer or a consumer.
C12_AtMostTenInFlight ==
    /\ Cardinality(InFlight) <= SemaphoreValue
    /\ sem = SemaphoreValue - Cardinality(InFlight)
    /\ \A w \in Windows :
          hstate[w] \in {"idle", "waiting"} => (ppc[w] = "none" /\ cpc[w] = "none")
    /\ \A w \in Windows : \A v \in Windows :
          (CollOf(v) = CollOf(w) /\ v < w /\ hstate[v] = "waiting") => hstate[w] = "waiting"

\* 11 windows: the first 10 entered, one of them raised and the 11th took the
\* slot it gave back; again 10 are in flight
C12_Witness ==
    /\ nchunks = SemaphoreValue + 1
    /\ hstate[SemaphoreValue + 1] = "running"
    /\ \E w \in Windows : hstate[w] = "raised"
    /\ Cardinality(InFlight) = SemaphoreValue
    /\ sem = 0

\* C13: once the get_all_records task has been cancelled, no window task is
\* outstanding, no producer is running or blocked in a put and no consumer is
\* blocked in a get; a producer or consumer is cancelled only with its window,
\* and then both have ended.
C13_CancelReachesEveryTask ==
    gstate = "cancelled" =>
        \A w \in Windows :
            /\ hstate[w] \notin {"waiting", "running"}
            /\ ppc[w] \notin {"fetch", "put", "sentinel"}
            /\ cpc[w] # "get"
            /\ (ppc[w] = "cancelled" \/ cpc[w] = "cancelled") =>
                  /\ hstate[w] = "cancelled"
                  /\ ppc[w] \in {"cancelled", "done"}
                  /\ cpc[w] \in {"cancelled", "done"}

(***************************************************************************)
(* pure_oai.PureOAIClient, the cache: properties                           *)
(*                                                                         *)
(* The cache is written only in the step in which get_all_records returns, *)
(* so in every other state it is the cache the call started with.          *)
(***************************************************************************)
\* cache retrieval is enabled and the entry of collection c loads and holds
\* records
IsHit(c) ==
    /\ use_cache_for_retrieval
    /\ cache[c].status = "ok"
    /\ cache[c].rows # <<>>

\* the records of the pages of collection c that were served and flattened
Fetched(c) == [i \in 1..Len(oserved[c]) |-> oserved[c][i].idx]

\* C14: with cache retrieval enabled, no request is ever sent for a
\* collection whose cache entry is a hit: while get_all_records runs the
\* collection it requests is not a hit, a hit collection the loop has passed
\* has the cached records as its result, and when get_all_records has
\* returned, every collection without a request has the records of its cache
\* entry as result.
C14_CacheHitSkipsHarvest ==
    /\ ostate \in {"request", "raised"} =>
          /\ ~IsHit(ocoll)
          /\ \A c \in DOMAIN cache :
                IsHit(c) =>
                    /\ oreqlog[c] = <<>>
                    /\ c < ocoll => (c \in DOMAIN oresults /\ oresults[c] = cache[c].rows)
    /\ ostate = "returned" =>
          \A c \in DOMAIN cache :
              oreqlog[c] = <<>> =>
                  /\ use_cache_for_retrieval
                  /\ cache[c].status = "ok"
                  /\ cache[c].rows # <<>>
                  /\ c \in DOMAIN oresults
                  /\ oresults[c] = cache[c].rows

\* the first collection was a hit and cost no request, the second was fetched
C14_Witness ==
    /\ ostate = "returned"
    /\ use_cache_for_retrieval
    /\ oreqlog[1] = <<>>
    /\ oresults[1] = <<1>>
    /\ Len(oreqlog[2]) = 1
    /\ oresults[2] = Fetched(2)

\* C15: get_all_records raises only out of a request it sent (the request
\* failed or its page could not be flattened), never out of the cache
\* lookup; a collection whose cache entry is corrupt is requested from the
\* server like one without an entry, and its result is what was fetched.
C15_CorruptCacheFallsBack ==
    /\ ostate = "raised" =>
          /\ oserved[ocoll] # <<>>
          /\ Last(oserved[ocoll]).kind \in {"err", "bad"}
    /\ \A c \in DOMAIN cache :
          (use_cache_for_retrieval /\ cache[c].status \in {"corrupt", "absent"}) =>
              /\ (ostate \in {"request", "raised"} /\ c < ocoll) =>
                    /\ Len(oreqlog[c]) = 1
                    /\ oreqlog[c][1] = oai_url
                    /\ c \in DOMAIN oresults
                    /\ oserved[c][1].kind = "ok" => oresults[c] = Fetched(c)
              /\ ostate = "returned" =>
                    /\ Len(oreqlog[c]) = 1
                    /\ c \in DOMAIN oresults
                    /\ oserved[c][1].kind = "ok" => oresults[c] = Fetched(c)

\* cache retrieval is on, the entry of the first collection is corrupt and
\* stays so: get_all_records has returned the records it fetched for it
C15_Witness ==
    /\ ostate = "returned"
    /\ use_cache_for_retrieval
    /\ cache[1].status = "corrupt"
    /\ Len(oreqlog[1]) = 1
    /\ oserved[1][1].kind = "ok"
    /\ oresults[1] = <<1>>

(***************************************************************************)
(* resolve_missing_ids: properties                                         *)
(***************************************************************************)
Resolving == fn = "resolve_missing_ids"
Looked == IF Resolving THEN DOMAIN lookups ELSE {}

\* the works the lookup of title t delivered, named by their position in the
\* list the title search returned (which is also their id)
Delivered(t) ==
    IF lookups[t].raises THEN {}
    ELSE {i \in 1..Len(lookups[t].items) : lookups[t].items[i].ok}

\* similarity ratio plus 0.05 for the institutional trust signal
Bonused(t, i) ==
    lookups[t].items[i].ratio + (IF lookups[t].items[i].has_ut THEN 5 ELSE 0)

\* the rows of candidates accepted for title t
Accepted(t) == {k \in 1..Len(candidates) : candidates[k].search_title = t}

\* the rows of the frame that were unmatched and carry title t
UnmatchedRows(t) ==
    {i \in 1..Len(args.df) : args.df[i].id = None /\ args.df[i].title = t}

\* C16: for every title looked up, a work is accepted if and only if the
\* lookup delivered a work whose bonused score is at least the threshold; the
\* accepted work is one of the highest bonused score; and when the pass has
\* returned, the unmatched rows of the title carry the id of the accepted work,
\* or are still unmatched when none was accepted.
C16_BestAboveThreshold ==
    \A t \in Looked :
        /\ Cardinality(Accepted(t)) <= 1
        /\ (Accepted(t) # {}) <=>
              (\E i \in Delivered(t) : Bonused(t, i) >= args.threshold)
        /\ \A k \in Accepted(t) :
              /\ candidates[k].oa_id \in Delivered(t)
              /\ \A j \in Delivered(t) : Bonused(t, candidates[k].oa_id) >= Bonused(t, j)
        /\ pstate = "returned" =>
              \A i \in UnmatchedRows(t) :
                  IF Accepted(t) = {} THEN ret[i].id = None
                  ELSE \A k \in Accepted(t) : ret[i].id = candidates[k].oa_id

\* threshold 0.8: a work of ratio 0.75 that carries the trust signal (0.80)
\* is accepted, and a lookup whose only work has ratio 0.75 leaves its row
\* unmatched
C16_Witness ==
    /\ Resolving
    /\ pstate = "returned"
    /\ args.threshold = 80
    /\ Len(args.df) = 2
    /\ DOMAIN lookups = {"a", "b"}
    /\ lookups["a"].items = <<[ok |-> TRUE, ratio |-> 75, has_ut |-> TRUE]>>
    /\ lookups["b"].items = <<[ok |-> TRUE, ratio |-> 75, has_ut |-> FALSE]>>
    /\ ret[1].id = 1
    /\ ret[2].id = None

\* C17: when several delivered works share the highest bonused score, the
\* accepted one is the first of them in the order of the lookup; and two
\* titles whose lookups gave identical answers have the same work accepted, or
\* none.
C17_FirstOfTiesWins ==
    /\ \A t \in Looked : \A k \in Accepted(t) : \A j \in Delivered(t) :
          Bonused(t, j) = Bonused(t, candidates[k].oa_id) => candidates[k].oa_id <= j
    /\ \A t \in Looked : \A u \in Looked :
          lookups[t] = lookups[u] =>
              {candidates[k].oa_id : k \in Accepted(t)} =
              {candidates[k].oa_id : k \in Accepted(u)}

\* two works tie at 0.80 (the second by its bonus): the first is accepted
C17_Witness ==
    /\ Resolving
    /\ pstate = "returned"
    /\ args.threshold = 80
    /\ "a" \in DOMAIN lookups
    /\ lookups["a"].items = <<[ok |-> TRUE, ratio |-> 80, has_ut |-> FALSE],
                              [ok |-> TRUE, ratio |-> 75, has_ut |-> TRUE]>>
    /\ \E k \in Accepted("a") : candidates[k].oa_id = 1
    /\ ret[1].id = 1

\* C18: a title whose search raised has no candidate, and a work whose
\* detail fetch failed is never accepted; the pass goes on: it returns when,
\* and only when, every title to search has been looked up, and then the
\* unmatched rows of a failed title are unchanged.
C18_LookupFailureIsNoCandidate ==
    /\ \A t \in Looked :
          /\ lookups[t].raises => Accepted(t) = {}
          /\ \A k \in Accepted(t) : lookups[t].items[candidates[k].oa_id].ok
          /\ (pstate = "returned" /\ Delivered(t) = {}) =>
                \A i \in UnmatchedRows(t) : ret[i] = args.df[i]
    /\ Resolving =>
          /\ pstate \in {"searching", "returned"}
          /\ (pstate = "returned") <=> (Looked = ToSearch(args.df))
          /\ pstate = "returned" => Len(ret) = Len(args.df)

\* the search of title a raised, that of b found a work: the pass returned,
\* row a is unmatched and row b matched
C18_Witness ==
    /\ Resolving
    /\ pstate = "returned"
    /\ Len(args.df) = 2
    /\ DOMAIN lookups = {"a", "b"}
    /\ lookups["a"].raises
    /\ ret[1] = args.df[1]
    /\ args.df[2].id = None
    /\ ret[2].id = 1

\* a value: not null and, in the monolith, not the empty string
HasValue(v) == v # None /\ v # Empty

\* C19: the fuzzy pass returns the rows it was given, in order, and every id
\* and doi that held a value holds the same value afterwards; the coalescing
\* of the monolith's fill-in keeps the value of the base column of every
\* field that has one, and takes a value of a later join only for a field
\* without one.
C19_LaterPassOnlyFillsGaps ==
    /\ (Resolving /\ pstate = "returned") =>
          /\ Len(ret) = Len(args.df)
          /\ \A i \in 1..Len(ret) :
                /\ ret[i].title = args.df[i].title
                /\ args.df[i].id # None => ret[i].id = args.df[i].id
                /\ args.df[i].doi # None => ret[i].doi = args.df[i].doi
    /\ fn = "add_missing_items_by_title" =>
          /\ HasValue(args.with_more_works.id[1]) => ret.id = args.with_more_works.id[1]
          /\ HasValue(args.with_more_works.doi[1]) => ret.doi = args.with_more_works.doi[1]

\* a row with a doi but no id got the id of the accepted work and kept its doi
C19_Witness ==
    /\ Resolving
    /\ pstate = "returned"
    /\ args.df[1] = [title |-> "a", id |-> None, doi |-> 9]
    /\ Accepted("a") # {}
    /\ ret[1] = [title |-> "a", id |-> 1, doi |-> 9]

(***************************************************************************)
(* merge_datasets: properties                                              *)
(***************************************************************************)
\* the rows of the result made of row i of full_df and row j of oils_df
MergedOf(i, j) ==
    {k \in 1..Len(ret) :
        /\ ret[k].title = args.full_df[i].title
        /\ ret[k].doi = args.full_df[i].doi
        /\ ret[k].oils_extra = args.oils_df[j].oils_extra
        /\ ret[k].doi_oils = args.oils_df[j].doi}

\* the DOIs of the example: "10.1/X " and "https://doi.org/10.1/x"
ExampleDois == {<<"X", " ">>, <<"p", "x">>}

C21_NormalizeIdempotent ==
    fn = "normalize_doi" => normalize_doi(ret) = ret

(***************************************************************************)
(* deduplicate: properties                                                 *)
(***************************************************************************)
\* a row of the frame given to deduplicate, or of its result, has a DOI: the
\* frame has the DOI column and the normalized value is not empty
RowHasDoi(row) == args.has_doi /\ normalize_doi(row.doi) # <<>>

\* the row as it was given: without the column deduplicate adds
AsGiven(row) == [n |-> row.n, doi |-> row.doi, title |-> row.title]

\* the rows of the result that are row i of the input
SurvivorsOf(i) == {k \in 1..Len(ret) : AsGiven(ret[k]) = args.rows[i]}

C23_FirstOfDoiKept ==
    fn = "deduplicate" =>
        \A i, j \in 1..Len(args.rows) :
            (/\ i < j
             /\ RowHasDoi(args.rows[i])
             /\ normalize_doi(args.rows[i].doi) = normalize_doi(args.rows[j].doi)
             /\ \A h \in 1..(i - 1) :
                    normalize_doi(args.rows[h].doi) # normalize_doi(args.rows[i].doi))
                => SurvivorsOf(i) # {} /\ SurvivorsOf(j) = {}

\* C24: for every normalized title of the rows without a DOI given to
\* deduplicate, the result has exactly one row without a DOI of that title.
C24_OnePerTitleWithoutDoi ==
    fn = "deduplicate" =>
        \A i \in 1..Len(args.rows) :
            ~RowHasDoi(args.rows[i]) =>
                Cardinality({k \in 1..Len(ret) :
                                /\ ~RowHasDoi(ret[k])
                                /\ NormTitle(ret[k]) = NormTitle(args.rows[i])}) = 1

\* the frame given to deduplicate has no two rows of the same normalized DOI
\* and no two rows without DOI of the same normalized title
NoDuplicates ==
    \A i, j \in 1..Len(args.rows) : i # j =>
        /\ (RowHasDoi(args.rows[i]) /\ RowHasDoi(args.rows[j]))
              => normalize_doi(args.rows[i].doi) # normalize_doi(args.rows[j].doi)
        /\ (~RowHasDoi(args.rows[i]) /\ ~RowHasDoi(args.rows[j]))
              => NormTitle(args.rows[i]) # NormTitle(args.rows[j])

\* C25: on a frame without duplicates deduplicate is the identity: the result
\* has the rows of the frame, each once, with the columns of the frame.
C25_IdentityWithoutDuplicates ==
    (fn = "deduplicate" /\ NoDuplicates) =>
        /\ \A i \in 1..Len(args.rows) : Cardinality(SurvivorsOf(i)) = 1
        /\ Len(ret) = Len(args.rows)
        /\ \A k \in 1..Len(ret) : DOMAIN ret[k] = DOMAIN args.rows[1]

(***************************************************************************)
(* add_missing_items_by_title: properties                                  *)
(***************************************************************************)
\* the columns of a group that hold a value, base column first
ValuedColumns(group) == {k \in 1..Len(group) : HasValue(group[k])}

\* the first value of a group in the order base column, join 1, 2, 3; null
\* when no column holds one
FirstValue(group) ==
    IF ValuedColumns(group) = {} THEN None
    ELSE group[CHOOSE k \in ValuedColumns(group) : \A h \in ValuedColumns(group) : k <= h]

\* C26: after the coalescing every field of the row holds the first value,
\* neither null nor the empty string, among its base column and the columns
\* suffixed by join 1, 2 and 3 in that order, and the row has the base
\* columns only.
C26_CoalescedInPassOrder ==
    fn = "add_missing_items_by_title" =>
        /\ DOMAIN ret = DOMAIN args.with_more_works
        /\ \A f \in DOMAIN ret :
              /\ ret[f] = FirstValue(args.with_more_works[f])
              /\ ret[f] \in {None, 1, 2, 3, 9}

\* the id is null in the base column, the empty string after join 1 and has
\* values after joins 2 and 3: the row gets the one of join 2
C26_Witness ==
    /\ fn = "add_missing_items_by_title"
    /\ args.with_more_works.id = <<None, Empty, 2, 3>>
    /\ ret.id = 2

(***************************************************************************)
(* merge_datasets: the rows kept and the missing key                       *)
(***************************************************************************)
\* the rows of the result that carry row j of oils_df
OilsRowIn(j) ==
    {k \in 1..Len(ret) :
        /\ ret[k].oils_extra = args.oils_df[j].oils_extra
        /\ ret[k].doi_oils = args.oils_df[j].doi}

\* the rows of full_df whose normalized DOI is the one of row j of oils_df
PartnersOf(j) ==
    {i \in 1..Len(args.full_df) :
        normalize_doi(args.full_df[i].doi) = normalize_doi(args.oils_df[j].doi)}

\* C27: every row of oils_df is in the result of merge_datasets: once with
\* the fields of every row of full_df of equal normalized DOI, and with null
\* in the fields of full_df when there is none.
C27_EveryOilsRowKept ==
    fn = "merge_datasets" =>
        \A j \in 1..Len(args.oils_df) :
            /\ OilsRowIn(j) # {}
            /\ \A i \in PartnersOf(j) : Cardinality(MergedOf(i, j)) = 1
            /\ PartnersOf(j) = {} => \A k \in OilsRowIn(j) : ret[k].title = None

\* C29: merge_datasets joins no row whose DOI is null or the empty string
\* with a row of the other frame.
C29_MissingKeyNeverJoins ==
    fn = "merge_datasets" =>
        \A i \in 1..Len(args.full_df) : \A j \in 1..Len(args.oils_df) :
            (args.full_df[i].doi \in {NoDoi, <<>>} \/ args.oils_df[j].doi \in {NoDoi, <<>>})
                => MergedOf(i, j) = {}

(***************************************************************************)
(* generate_date_chunks: properties                                        *)
(***************************************************************************)
\* the windows of the result that hold day d
WindowsWith(d) == {k \in 1..Len(ret) : ret[k][1] <= d /\ d <= ret[k][2]}

\* C28: the windows generate_date_chunks returns are a partition of the
\* range: every day from 1 January of start_year to 31 December of end_year
\* is in exactly one window.
C28_WindowsPartitionRange ==
    (fn = "generate_date_chunks" /\ pstate = "returned") =>
        \A d \in Jan1(args.start_year)..Dec31(args.end_year) :
            Cardinality(WindowsWith(d)) = 1

(***************************************************************************)
(* _harvest_collection_concurrent: the tasks it leaves behind              *)
(***************************************************************************)
\* C30: once _harvest_collection_concurrent of a window has returned or
\* raised, its producer and its consumer have ended: the producer is not
\* fetching, not waiting in a put and not about to put the sentinel, and the
\* consumer is not waiting in a get.
C30_NoTaskLeftPending ==
    \A w \in ActiveWindows :
        Ended(w) =>
            /\ ppc[w] = "done"
            /\ cpc[w] \in {"done", "failed"}

====
